---- MODULE Spec2Model ----
(***************************************************************************)
(* Order / Invoice payment reconciliation of the laundry backend.          *)
(*                                                                         *)
(* The database is modelled by its collections (customers, orders,         *)
(* invoices, counters).  A document id is never reused (Mongo ObjectId),   *)
(* so ids are drawn from counters nextCustomerId/nextOrderId/nextInvoiceId.*)
(* Monetary amounts are integers (the scenarios of the specification use   *)
(* whole amounts; JavaScript numbers are exact on them).                   *)
(*                                                                         *)
(* An optional request field is a sequence: <<>> is `undefined', <<v>> is  *)
(* the value v.                                                            *)
(***************************************************************************)
EXTENDS Integers, Sequences, FiniteSets, TLC

VARIABLES customers, orders, invoices, counters,
          nextCustomerId, nextOrderId, nextInvoiceId,
          last,      \* the last response sent
          reqs,      \* the invoice requests in flight, one per handler slot
          started,   \* how many invoice requests were started
          calls      \* the document creations in flight, each allocating a code

db == <<customers, orders, invoices, counters,
        nextCustomerId, nextOrderId, nextInvoiceId>>
inflight == <<reqs, started, calls>>
vars == <<customers, orders, invoices, counters,
          nextCustomerId, nextOrderId, nextInvoiceId, last, reqs, started, calls>>

\* ---------------------------------------------------------------- bounds
MaxCustomers == 1
MaxOrders == 1
MaxInvoices == 2
\* concurrent handler slots, and requests started in one run of them
MaxReqs == 2
MaxStarted == 3
\* concurrent document creations
MaxCallers == 3

\* ---------------------------------------------------------------- inputs
Undefined == <<>>
Some(v) == <<v>>
Optional(S) == {Undefined} \cup {Some(v) : v \in S}

Statuses == {"received", "completed", "delivered"}
OrderTotals == {40, 100}
OrderPaidInputs == {40}
InvoiceTotals == {40, 100}
InvoicePaids == {0, 40, 60, 80}
\* the amounts of the interleaved requests
ConcTotals == {100}
ConcPaids == {30, 60}

\* a numeric field of a JSON request body: absent, a number, or a string that does
\* not read as a number (such as "abc")
Missing == [kind |-> "undefined", num |-> 0]
Num(n) == [kind |-> "number", num |-> n]
Text == [kind |-> "string", num |-> 0]
BodyTotals == {Missing, Text, Num(40), Num(100)}
BodyPaids == {Missing, Text, Num(-20), Num(0), Num(60)}

CustomerIds == 1..MaxCustomers
OrderIds == 1..MaxOrders
\* the order ids a request may name: those ever issued and one that never exists
NamedOrderIds == 1..(MaxOrders + 1)
InvoiceIds == 1..MaxInvoices
ReqIds == 1..MaxReqs
CallerIds == 1..MaxCallers

\* ---------------------------------------------------------------- helpers
EmptyMap == [x \in {} |-> 0]

MapPut(f, k, v) == [x \in (DOMAIN f) \cup {k} |-> IF x = k THEN v ELSE f[x]]

MapRemove(f, k) == [x \in (DOMAIN f) \ {k} |-> f[x]]

RECURSIVE SumOver(_, _)
SumOver(S, f) ==
  IF S = {} THEN 0
  ELSE LET x == CHOOSE y \in S : TRUE IN f[x] + SumOver(S \ {x}, f)

\* Invoice.find({ order: o })
InvoicesOf(invs, o) == {i \in DOMAIN invs : invs[i].order = o}

\* allInvoices.reduce((sum, inv) => sum + inv.paid, 0)
TotalPaid(invs, o) == SumOver(InvoicesOf(invs, o), [i \in DOMAIN invs |-> invs[i].paid])

\* ---------------------------------------------------------------- counters
\* variant: the update sets the value on insert only and never increments it
CounterNewValue_NoInc(ctrs, name) == IF name \in DOMAIN ctrs THEN ctrs[name] ELSE 1

\* Counter.findOneAndUpdate({name}, {$inc: {value: 1}}, {new: true, upsert: true}):
\* the new value of the counter document (created with the default 0 when absent)
CounterNewValue(ctrs, name) == (IF name \in DOMAIN ctrs THEN ctrs[name] ELSE 0) + 1

\* variant: the stored value is one more than the value the call returns
CounterInc_StoredAhead(ctrs, name) == MapPut(ctrs, name, CounterNewValue(ctrs, name) + 1)

\* the counters collection after that update
CounterInc(ctrs, name) == MapPut(ctrs, name, CounterNewValue(ctrs, name))

\* ---------------------------------------------------------------- reconciliation arithmetic
\* variant: the paid of the earlier invoices is left out
CreateOrderPaid_OwnPaidOnly(totalPaid, paid) == paid

\* POST /invoices: orderDoc.paid = totalPaid + paid
CreateOrderPaid(totalPaid, paid) == totalPaid + paid

\* POST /invoices: remain = total - orderDoc.paid
CreateRemain(total, orderPaid) == total - orderPaid

\* variant: the create path applies the three-tier rule of the update and delete paths
CreateStatus_ThreeTier(orderPaid, totalAmount, status) ==
  IF orderPaid >= totalAmount THEN "delivered"
  ELSE IF orderPaid > 0 THEN "completed"
  ELSE "received"

\* POST /invoices: delivered when paid up, else received -> completed, else kept
CreateStatus(orderPaid, totalAmount, status) ==
  IF orderPaid >= totalAmount THEN "delivered"
  ELSE IF status = "received" THEN "completed"
  ELSE status

\* PUT /invoices/:id: difference = invoice.paid - paid when paid is supplied
UpdateDifference(oldPaid, paid) ==
  IF paid # Undefined THEN oldPaid - paid[1] ELSE 0

\* variant: the change of the invoice's paid is left out
UpdateOrderPaid_NoDifference(total, remain, difference) == total - remain

\* PUT /invoices/:id: orderDoc.paid = invoice.total - invoice.remain - difference
UpdateOrderPaid(total, remain, difference) == total - remain - difference

\* PUT /invoices/:id: invoice.remain = invoice.total - orderDoc.paid
UpdateRemain(total, orderPaid) == total - orderPaid

\* PUT /invoices/:id: three-tier status
UpdateStatus(orderPaid, totalAmount) ==
  IF orderPaid >= totalAmount THEN "delivered"
  ELSE IF orderPaid > 0 THEN "completed"
  ELSE "received"

\* variant: the remain is stored without the clamp at 0
DeleteRemain_NoClamp(totalAmount, totalPaid) == totalAmount - totalPaid

\* DELETE /invoices/:id: remain = totalAmount - totalPaid, stored clamped at 0
DeleteRemain(totalAmount, totalPaid) ==
  LET remain == totalAmount - totalPaid IN IF remain > 0 THEN remain ELSE 0

\* DELETE /invoices/:id: three-tier status
DeleteStatus(orderPaid, totalAmount) ==
  IF orderPaid >= totalAmount THEN "delivered"
  ELSE IF orderPaid > 0 THEN "completed"
  ELSE "received"

\* ---------------------------------------------------------------- responses
\* the last completed request: operation, HTTP status, the order and invoice it touched
Response(op, code, order, inv) ==
  [op |-> op, code |-> code, order |-> order, inv |-> inv]

NoId == 0

NoInvoiceDoc == [order |-> NoId, total |-> 0, paid |-> 0, remain |-> 0]

NoOrderDoc == [order_code |-> 0, totalAmount |-> 0, status |-> "received", paid |-> 0]

\* a handler slot with no request
IdleReq ==
  [op |-> "none", pc |-> "idle", code |-> 0,
   id |-> NoId, order |-> Undefined, total |-> Undefined, paid |-> Undefined,
   invoice |-> NoInvoiceDoc, invoiceLoaded |-> NoInvoiceDoc,
   orderId |-> NoId, orderDoc |-> NoOrderDoc, orderLoaded |-> NoOrderDoc,
   totalPaid |-> 0, newId |-> NoId,
   alone |-> TRUE, preOrders |-> EmptyMap, preInvoices |-> EmptyMap]

IdleCall == [pc |-> "idle", name |-> "none", value |-> 0, floor |-> 0]

\* the empty database, no request in flight
Init ==
  /\ customers = EmptyMap
  /\ orders = EmptyMap
  /\ invoices = EmptyMap
  /\ counters = EmptyMap
  /\ nextCustomerId = 1
  /\ nextOrderId = 1
  /\ nextInvoiceId = 1
  /\ last = Response("none", 0, NoId, NoId)
  /\ reqs = [r \in ReqIds |-> IdleReq]
  /\ started = 0
  /\ calls = [c \in CallerIds |-> IdleCall]

\* ---------------------------------------------------------------- customers
\* POST /customers: customer.save() with the pre-save hook allocating customer_code
CreateCustomer ==
  /\ nextCustomerId <= MaxCustomers
  /\ counters' = CounterInc(counters, "customer_code")
  /\ customers' = MapPut(customers, nextCustomerId,
                         [customer_code |-> CounterNewValue(counters, "customer_code")])
  /\ nextCustomerId' = nextCustomerId + 1
  /\ last' = Response("createCustomer", 201, NoId, NoId)
  /\ UNCHANGED <<orders, invoices, nextOrderId, nextInvoiceId>>

\* ---------------------------------------------------------------- orders
\* POST /orders
CreateOrder(customer, totalAmount, status, paid) ==
  IF customer \notin DOMAIN customers
  THEN /\ last' = Response("createOrder", 404, NoId, NoId)
       /\ UNCHANGED db
  ELSE /\ nextOrderId <= MaxOrders
       /\ counters' = CounterInc(counters, "order_code")
       /\ orders' = MapPut(orders, nextOrderId,
            [order_code |-> CounterNewValue(counters, "order_code"),
             totalAmount |-> totalAmount,
             status |-> IF status # Undefined THEN status[1] ELSE "received",
             paid |-> IF paid # Undefined /\ paid[1] # 0 THEN paid[1] ELSE 0])
       /\ nextOrderId' = nextOrderId + 1
       /\ last' = Response("createOrder", 201, nextOrderId, NoId)
       /\ UNCHANGED <<customers, invoices, nextCustomerId, nextInvoiceId>>

\* variant: the pre-save hook allocates a code at every save, not only when isNew
UpdateOrder_HookAtEverySave(id, totalAmount, status, paid) ==
  IF id \notin DOMAIN orders
  THEN /\ last' = Response("updateOrder", 404, id, NoId)
       /\ UNCHANGED db
  ELSE /\ counters' = CounterInc(counters, "order_code")
       /\ orders' = [orders EXCEPT ![id] =
            [order_code |-> CounterNewValue(counters, "order_code"),
             totalAmount |-> IF totalAmount # Undefined THEN totalAmount[1] ELSE @.totalAmount,
             status |-> IF status # Undefined THEN status[1] ELSE @.status,
             paid |-> IF paid # Undefined THEN paid[1] ELSE @.paid]]
       /\ last' = Response("updateOrder", 200, id, NoId)
       /\ UNCHANGED <<customers, invoices, nextCustomerId, nextOrderId, nextInvoiceId>>

\* variant: the update derives the status from paid and totalAmount and ignores the
\* status of the body
UpdateOrder_StatusFromPaid(id, totalAmount, status, paid) ==
  IF id \notin DOMAIN orders
  THEN /\ last' = Response("updateOrder", 404, id, NoId)
       /\ UNCHANGED db
  ELSE LET newTotal == IF totalAmount # Undefined THEN totalAmount[1] ELSE orders[id].totalAmount
           newPaid == IF paid # Undefined THEN paid[1] ELSE orders[id].paid
       IN /\ orders' = [orders EXCEPT ![id] =
               [order_code |-> @.order_code, totalAmount |-> newTotal,
                status |-> UpdateStatus(newPaid, newTotal), paid |-> newPaid]]
          /\ last' = Response("updateOrder", 200, id, NoId)
          /\ UNCHANGED <<customers, invoices, counters, nextCustomerId, nextOrderId, nextInvoiceId>>

\* PUT /orders/:id
UpdateOrder(id, totalAmount, status, paid) ==
  IF id \notin DOMAIN orders
  THEN /\ last' = Response("updateOrder", 404, id, NoId)
       /\ UNCHANGED db
  ELSE /\ orders' = [orders EXCEPT ![id] =
            [order_code |-> @.order_code,
             totalAmount |-> IF totalAmount # Undefined THEN totalAmount[1] ELSE @.totalAmount,
             status |-> IF status # Undefined THEN status[1] ELSE @.status,
             paid |-> IF paid # Undefined THEN paid[1] ELSE @.paid]]
       /\ last' = Response("updateOrder", 200, id, NoId)
       /\ UNCHANGED <<customers, invoices, counters, nextCustomerId, nextOrderId, nextInvoiceId>>

\* DELETE /orders/:id
DeleteOrder(id) ==
  IF id \notin DOMAIN orders
  THEN /\ last' = Response("deleteOrder", 404, id, NoId)
       /\ UNCHANGED db
  ELSE /\ orders' = MapRemove(orders, id)
       /\ last' = Response("deleteOrder", 200, id, NoId)
       /\ UNCHANGED <<customers, invoices, counters, nextCustomerId, nextOrderId, nextInvoiceId>>

\* ---------------------------------------------------------------- invoices
\* POST /invoices
CreateInvoice(order, total, paid) ==
  IF order \notin DOMAIN orders
  THEN /\ last' = Response("createInvoice", 404, order, NoId)
       /\ UNCHANGED db
  ELSE LET orderDoc == orders[order]
           totalPaid == TotalPaid(invoices, order)
           orderPaid == CreateOrderPaid(totalPaid, paid)
           remain == CreateRemain(total, orderPaid)
       IN /\ nextInvoiceId <= MaxInvoices
          /\ invoices' = MapPut(invoices, nextInvoiceId,
                [order |-> order, total |-> total, paid |-> paid, remain |-> remain])
          /\ orders' = [orders EXCEPT ![order] =
                [@ EXCEPT !.paid = orderPaid,
                          !.status = CreateStatus(orderPaid, orderDoc.totalAmount, orderDoc.status)]]
          /\ nextInvoiceId' = nextInvoiceId + 1
          /\ last' = Response("createInvoice", 201, order, nextInvoiceId)
          /\ UNCHANGED <<customers, counters, nextCustomerId, nextOrderId>>

\* PUT /invoices/:id
UpdateInvoice(id, order, total, paid) ==
  IF id \notin DOMAIN invoices
  THEN /\ last' = Response("updateInvoice", 404, NoId, id)
       /\ UNCHANGED db
  ELSE LET invoice == invoices[id]
           orderId == invoice.order
           reassign == order # Undefined /\ order[1] # invoice.order
       IN IF reassign /\ order[1] \notin DOMAIN orders
          THEN /\ last' = Response("updateInvoice", 404, orderId, id)
               /\ UNCHANGED db
          ELSE IF orderId \notin DOMAIN orders
          THEN \* orderDoc is null: the handler throws before any save
               /\ last' = Response("updateInvoice", 500, orderId, id)
               /\ UNCHANGED db
          ELSE LET orderDoc == orders[orderId]
                   newTotal == IF total # Undefined THEN total[1] ELSE invoice.total
                   newPaid == IF paid # Undefined THEN paid[1] ELSE invoice.paid
                   difference == UpdateDifference(invoice.paid, paid)
                   orderPaid == UpdateOrderPaid(newTotal, invoice.remain, difference)
               IN /\ invoices' = [invoices EXCEPT ![id] =
                        [order |-> IF reassign THEN order[1] ELSE invoice.order,
                         total |-> newTotal,
                         paid |-> newPaid,
                         remain |-> UpdateRemain(newTotal, orderPaid)]]
                  /\ orders' = [orders EXCEPT ![orderId] =
                        [@ EXCEPT !.paid = orderPaid,
                                  !.status = UpdateStatus(orderPaid, orderDoc.totalAmount)]]
                  /\ last' = Response("updateInvoice", 200, orderId, id)
                  /\ UNCHANGED <<customers, counters, nextCustomerId, nextOrderId, nextInvoiceId>>

\* variant: the invoice is removed without being looked up first
DeleteInvoice_NoLookup(id) ==
  /\ last' = Response("deleteInvoice", 200, NoId, id)
  /\ invoices' = MapRemove(invoices, id)
  /\ UNCHANGED <<customers, orders, counters, nextCustomerId, nextOrderId, nextInvoiceId>>

\* variant: an invoice whose order is gone is not deleted and the request answers 404
DeleteInvoice_RequiresOrder(id) ==
  IF id \notin DOMAIN invoices \/ invoices[id].order \notin DOMAIN orders
  THEN /\ last' = Response("deleteInvoice", 404, NoId, id)
       /\ UNCHANGED db
  ELSE LET orderId == invoices[id].order
           remaining == MapRemove(invoices, id)
           totalPaid == TotalPaid(remaining, orderId)
           remain == DeleteRemain(orders[orderId].totalAmount, totalPaid)
       IN /\ last' = Response("deleteInvoice", 200, orderId, id)
          /\ invoices' = [i \in DOMAIN remaining |->
                IF remaining[i].order = orderId
                THEN [remaining[i] EXCEPT !.remain = remain]
                ELSE remaining[i]]
          /\ orders' = [orders EXCEPT ![orderId] =
                [@ EXCEPT !.paid = totalPaid,
                          !.status = DeleteStatus(totalPaid, orders[orderId].totalAmount)]]
          /\ UNCHANGED <<customers, counters, nextCustomerId, nextOrderId, nextInvoiceId>>

\* variant: updateMany without the { order } filter rewrites the remain of every invoice
DeleteInvoice_UnfilteredUpdateMany(id) ==
  IF id \notin DOMAIN invoices
  THEN /\ last' = Response("deleteInvoice", 404, NoId, id)
       /\ UNCHANGED db
  ELSE LET orderId == invoices[id].order
           remaining == MapRemove(invoices, id)
           totalPaid == TotalPaid(remaining, orderId)
       IN /\ last' = Response("deleteInvoice", 200, orderId, id)
          /\ IF orderId \in DOMAIN orders
             THEN LET remain == DeleteRemain(orders[orderId].totalAmount, totalPaid)
                  IN /\ invoices' = [i \in DOMAIN remaining |->
                           [remaining[i] EXCEPT !.remain = remain]]
                     /\ orders' = [orders EXCEPT ![orderId] =
                           [@ EXCEPT !.paid = totalPaid,
                                     !.status = DeleteStatus(totalPaid, orders[orderId].totalAmount)]]
             ELSE /\ invoices' = remaining
                  /\ orders' = orders
          /\ UNCHANGED <<customers, counters, nextCustomerId, nextOrderId, nextInvoiceId>>

\* DELETE /invoices/:id
DeleteInvoice(id) ==
  IF id \notin DOMAIN invoices
  THEN /\ last' = Response("deleteInvoice", 404, NoId, id)
       /\ UNCHANGED db
  ELSE LET orderId == invoices[id].order
           remaining == MapRemove(invoices, id)
           totalPaid == TotalPaid(remaining, orderId)
       IN /\ last' = Response("deleteInvoice", 200, orderId, id)
          /\ IF orderId \in DOMAIN orders
             THEN LET orderDoc == orders[orderId]
                      remain == DeleteRemain(orderDoc.totalAmount, totalPaid)
                  IN /\ invoices' = [i \in DOMAIN remaining |->
                           IF remaining[i].order = orderId
                           THEN [remaining[i] EXCEPT !.remain = remain]
                           ELSE remaining[i]]
                     /\ orders' = [orders EXCEPT ![orderId] =
                           [@ EXCEPT !.paid = totalPaid,
                                     !.status = DeleteStatus(totalPaid, orderDoc.totalAmount)]]
             ELSE /\ invoices' = remaining
                  /\ orders' = orders
          /\ UNCHANGED <<customers, counters, nextCustomerId, nextOrderId, nextInvoiceId>>

\* ---------------------------------------------------------------- request bodies
\* parseFloat(v) is a number (not NaN); a NaN or a non-numeric string assigned to a
\* Number path is a CastError that the document keeps until save() rejects with it
IsNumber(v) == v.kind = "number"

\* the field as the handlers above take it
ToOptional(v) == IF IsNumber(v) THEN Some(v.num) ELSE Undefined

\* POST /invoices on the body as received
PostInvoice(order, total, paid) ==
  IF total = Missing
  THEN \* total === undefined
       /\ last' = Response("createInvoice", 400, order, NoId)
       /\ UNCHANGED db
  ELSE IF order \notin DOMAIN orders
  THEN /\ last' = Response("createInvoice", 404, order, NoId)
       /\ UNCHANGED db
  ELSE IF IsNumber(total) /\ IsNumber(paid)
  THEN CreateInvoice(order, total.num, paid.num)
  ELSE IF total = Text \/ paid = Text
  THEN \* new Invoice({ total, paid: paid || 0, remain }) holds a CastError:
       \* invoice.save() rejects and the catch block answers 500
       /\ last' = Response("createInvoice", 500, order, NoId)
       /\ UNCHANGED db
  ELSE \* paid is undefined: orderDoc.paid = NaN is a CastError on orderDoc, whose paid
       \* keeps its value; the invoice (paid || 0) is valid and saved; orderDoc.save()
       \* then rejects and the catch block answers 500
       /\ nextInvoiceId <= MaxInvoices
       /\ invoices' = MapPut(invoices, nextInvoiceId,
             [order |-> order, total |-> total.num, paid |-> 0,
              remain |-> CreateRemain(total.num, orders[order].paid)])
       /\ nextInvoiceId' = nextInvoiceId + 1
       /\ last' = Response("createInvoice", 500, order, nextInvoiceId)
       /\ UNCHANGED <<customers, orders, counters, nextCustomerId, nextOrderId>>

\* PUT /invoices/:id on the body as received
PutInvoice(id, order, total, paid) ==
  IF total # Text /\ paid # Text
  THEN UpdateInvoice(id, order, ToOptional(total), ToOptional(paid))
  ELSE IF id \notin DOMAIN invoices
  THEN /\ last' = Response("updateInvoice", 404, NoId, id)
       /\ UNCHANGED db
  ELSE IF order # Undefined /\ order[1] # invoices[id].order /\ order[1] \notin DOMAIN orders
  THEN /\ last' = Response("updateInvoice", 404, invoices[id].order, id)
       /\ UNCHANGED db
  ELSE \* invoice.total = "abc" or invoice.paid = "abc" is a CastError on the invoice:
       \* invoice.save() rejects (or orderDoc is null and the handler throws before)
       /\ last' = Response("updateInvoice", 500, invoices[id].order, id)
       /\ UNCHANGED db

\* ---------------------------------------------------------------- specification
\* requests served one at a time, each handler running to its response
Next ==
  \/ CreateCustomer /\ UNCHANGED inflight
  \/ \E c \in CustomerIds, t \in OrderTotals, p \in Optional(OrderPaidInputs) :
        CreateOrder(c, t, Undefined, p) /\ UNCHANGED inflight
  \/ \E o \in OrderIds, t \in Optional(OrderTotals), s \in Optional(Statuses),
        p \in Optional(OrderPaidInputs) : UpdateOrder(o, t, s, p) /\ UNCHANGED inflight
  \/ \E o \in OrderIds : DeleteOrder(o) /\ UNCHANGED inflight
  \/ \E o \in OrderIds, t \in InvoiceTotals, p \in InvoicePaids :
        CreateInvoice(o, t, p) /\ UNCHANGED inflight
  \/ \E i \in InvoiceIds, o \in Optional(NamedOrderIds), t \in Optional(InvoiceTotals),
        p \in Optional(InvoicePaids) : UpdateInvoice(i, o, t, p) /\ UNCHANGED inflight
  \/ \E i \in InvoiceIds : DeleteInvoice(i) /\ UNCHANGED inflight

Spec == Init /\ [][Next]_vars

\* ---------------------------------------------------------------- interleaved invoice handlers
\* Each handler is an async function: between two awaits it runs alone, and at every
\* await another request may run.  One action per awaited store operation; the
\* synchronous code that follows an await belongs to the same action.

Active(q) == q.pc \notin {"idle", "done"}

\* doc.save() of a loaded document writes the paths whose value was changed
Modified(loaded, doc) == doc # loaded

\* orderDoc.save(): $set of the modified ones among paid and status
SaveOrderDoc(ords, id, loaded, doc) ==
  [ords EXCEPT ![id] =
     [order_code |-> @.order_code,
      totalAmount |-> @.totalAmount,
      status |-> IF doc.status # loaded.status THEN doc.status ELSE @.status,
      paid |-> IF doc.paid # loaded.paid THEN doc.paid ELSE @.paid]]

\* invoice.save() of a loaded invoice: $set of the modified paths
SaveInvoiceDoc(invs, id, loaded, doc) ==
  [invs EXCEPT ![id] =
     [order |-> IF doc.order # loaded.order THEN doc.order ELSE @.order,
      total |-> IF doc.total # loaded.total THEN doc.total ELSE @.total,
      paid |-> IF doc.paid # loaded.paid THEN doc.paid ELSE @.paid,
      remain |-> IF doc.remain # loaded.remain THEN doc.remain ELSE @.remain]]

\* Invoice.updateMany({ order }, { $set: { remain } })
UpdateManyRemain(invs, order, remain) ==
  [i \in DOMAIN invs |->
     IF invs[i].order = order THEN [invs[i] EXCEPT !.remain = remain] ELSE invs[i]]

\* a request arrives and takes the first free handler slot r; the requests already
\* in flight are no longer alone
Arrive(r, q) ==
  /\ reqs[r].pc \in {"idle", "done"}
  /\ \A x \in ReqIds : x < r => Active(reqs[x])
  /\ started < MaxStarted
  /\ started' = started + 1
  /\ reqs' = [x \in ReqIds |->
       IF x = r
       THEN [q EXCEPT !.alone = \A y \in ReqIds \ {r} : ~Active(reqs[y]),
                      !.preOrders = orders, !.preInvoices = invoices]
       ELSE IF Active(reqs[x]) THEN [reqs[x] EXCEPT !.alone = FALSE] ELSE reqs[x]]
  /\ UNCHANGED <<db, last, calls>>

\* res.status(code).json(...): the handler ends and its locals are dropped
Respond(r, code, order, inv) ==
  /\ reqs' = [reqs EXCEPT ![r] =
       [IdleReq EXCEPT !.op = reqs[r].op, !.pc = "done", !.code = code, !.id = reqs[r].id,
                       !.order = reqs[r].order, !.total = reqs[r].total,
                       !.paid = reqs[r].paid, !.newId = reqs[r].newId]]
  /\ last' = Response(reqs[r].op, code, order, inv)

Goto(r, pc) == reqs' = [reqs EXCEPT ![r].pc = pc]

\* ---- POST /invoices
StartCreateInvoice(r, order, total, paid) ==
  /\ nextInvoiceId + Cardinality({x \in ReqIds : Active(reqs[x]) /\ reqs[x].op = "createInvoice"})
       <= MaxInvoices
  /\ Arrive(r, [IdleReq EXCEPT !.op = "createInvoice", !.pc = "c_exists",
                               !.order = Some(order), !.total = Some(total), !.paid = Some(paid)])

\* const orderExists = await Order.findById(order)
CreateCheckOrder(r) ==
  /\ reqs[r].pc = "c_exists"
  /\ IF reqs[r].order[1] \in DOMAIN orders
     THEN Goto(r, "c_load") /\ UNCHANGED last
     ELSE Respond(r, 404, reqs[r].order[1], NoId)
  /\ UNCHANGED <<db, started, calls>>

\* const orderDoc = await Order.findById(order)
CreateLoadOrder(r) ==
  /\ reqs[r].pc = "c_load"
  /\ IF reqs[r].order[1] \in DOMAIN orders
     THEN /\ reqs' = [reqs EXCEPT ![r].pc = "c_find",
                                  ![r].orderId = reqs[r].order[1],
                                  ![r].orderDoc = orders[reqs[r].order[1]],
                                  ![r].orderLoaded = orders[reqs[r].order[1]]]
          /\ UNCHANGED last
     ELSE Respond(r, 500, reqs[r].order[1], NoId)
  /\ UNCHANGED <<db, started, calls>>

\* const allInvoices = await Invoice.find({ order }); then orderDoc.paid, remain and
\* the new Invoice are computed
CreateFindInvoices(r) ==
  /\ reqs[r].pc = "c_find"
  /\ LET q == reqs[r]
         totalPaid == TotalPaid(invoices, q.orderId)
         orderPaid == CreateOrderPaid(totalPaid, q.paid[1])
     IN reqs' = [reqs EXCEPT ![r].pc = "c_saveInvoice",
                             ![r].totalPaid = totalPaid,
                             ![r].orderDoc.paid = orderPaid,
                             ![r].invoice = [order |-> q.orderId, total |-> q.total[1],
                                             paid |-> q.paid[1],
                                             remain |-> CreateRemain(q.total[1], orderPaid)]]
  /\ UNCHANGED <<db, last, started, calls>>

\* variant: the response is sent once the invoice is saved, the order write still pending
CreateSaveInvoice_RespondFirst(r) ==
  /\ reqs[r].pc = "c_saveInvoice"
  /\ invoices' = MapPut(invoices, nextInvoiceId, reqs[r].invoice)
  /\ nextInvoiceId' = nextInvoiceId + 1
  /\ Respond(r, 201, reqs[r].orderId, nextInvoiceId)
  /\ UNCHANGED <<customers, orders, counters, nextCustomerId, nextOrderId, started, calls>>

\* await invoice.save(); then the status is set on orderDoc
CreateSaveInvoice(r) ==
  /\ reqs[r].pc = "c_saveInvoice"
  /\ invoices' = MapPut(invoices, nextInvoiceId, reqs[r].invoice)
  /\ nextInvoiceId' = nextInvoiceId + 1
  /\ reqs' = [reqs EXCEPT ![r].pc = "c_saveOrder",
                          ![r].newId = nextInvoiceId,
                          ![r].orderDoc.status =
                             CreateStatus(reqs[r].orderDoc.paid, reqs[r].orderDoc.totalAmount,
                                          reqs[r].orderDoc.status)]
  /\ UNCHANGED <<customers, orders, counters, nextCustomerId, nextOrderId, last, started, calls>>

\* await orderDoc.save()
CreateSaveOrder(r) ==
  /\ reqs[r].pc = "c_saveOrder"
  /\ LET q == reqs[r] IN
       IF ~Modified(q.orderLoaded, q.orderDoc)
       THEN Goto(r, "c_respond") /\ UNCHANGED <<orders, last>>
       ELSE IF q.orderId \in DOMAIN orders
       THEN /\ orders' = SaveOrderDoc(orders, q.orderId, q.orderLoaded, q.orderDoc)
            /\ Goto(r, "c_respond") /\ UNCHANGED last
       ELSE Respond(r, 500, q.orderId, q.newId) /\ UNCHANGED orders
  /\ UNCHANGED <<customers, invoices, counters, nextCustomerId, nextOrderId, nextInvoiceId,
                 started, calls>>

\* await invoice.populate(...); res.status(201)
CreateRespond(r) ==
  /\ reqs[r].pc = "c_respond"
  /\ Respond(r, 201, reqs[r].orderId, reqs[r].newId)
  /\ UNCHANGED <<db, started, calls>>

\* ---- PUT /invoices/:id
StartUpdateInvoice(r, id, order, total, paid) ==
  Arrive(r, [IdleReq EXCEPT !.op = "updateInvoice", !.pc = "u_find", !.id = id,
                            !.order = order, !.total = total, !.paid = paid])

\* const invoice = await Invoice.findById(id); orderId = invoice.order
UpdateFindInvoice(r) ==
  /\ reqs[r].pc = "u_find"
  /\ LET q == reqs[r] IN
       IF q.id \notin DOMAIN invoices
       THEN Respond(r, 404, NoId, q.id)
       ELSE /\ reqs' = [reqs EXCEPT
                 ![r].pc = IF q.order # Undefined /\ q.order[1] # invoices[q.id].order
                           THEN "u_exists" ELSE "u_load",
                 ![r].invoice = invoices[q.id],
                 ![r].invoiceLoaded = invoices[q.id],
                 ![r].orderId = invoices[q.id].order]
            /\ UNCHANGED last
  /\ UNCHANGED <<db, started, calls>>

\* variant: the invoice is moved without checking that the new order exists
UpdateCheckOrder_NoCheck(r) ==
  /\ reqs[r].pc = "u_exists"
  /\ reqs' = [reqs EXCEPT ![r].pc = "u_load", ![r].invoice.order = reqs[r].order[1]]
  /\ UNCHANGED <<db, last, started, calls>>

\* const orderExists = await Order.findById(order); invoice.order = order
UpdateCheckOrder(r) ==
  /\ reqs[r].pc = "u_exists"
  /\ IF reqs[r].order[1] \in DOMAIN orders
     THEN /\ reqs' = [reqs EXCEPT ![r].pc = "u_load", ![r].invoice.order = reqs[r].order[1]]
          /\ UNCHANGED last
     ELSE Respond(r, 404, reqs[r].orderId, reqs[r].id)
  /\ UNCHANGED <<db, started, calls>>

\* the fields are set on the invoice; const orderDoc = await Order.findById(orderId);
\* orderDoc.paid and invoice.remain are computed
UpdateLoadOrder(r) ==
  /\ reqs[r].pc = "u_load"
  /\ LET q == reqs[r] IN
       IF q.orderId \notin DOMAIN orders
       THEN Respond(r, 500, q.orderId, q.id)
       ELSE LET newTotal == IF q.total # Undefined THEN q.total[1] ELSE q.invoice.total
                newPaid == IF q.paid # Undefined THEN q.paid[1] ELSE q.invoice.paid
                difference == UpdateDifference(q.invoice.paid, q.paid)
                orderPaid == UpdateOrderPaid(newTotal, q.invoice.remain, difference)
            IN /\ reqs' = [reqs EXCEPT
                    ![r].pc = "u_saveInvoice",
                    ![r].orderDoc = [orders[q.orderId] EXCEPT !.paid = orderPaid],
                    ![r].orderLoaded = orders[q.orderId],
                    ![r].invoice = [order |-> q.invoice.order, total |-> newTotal,
                                    paid |-> newPaid,
                                    remain |-> UpdateRemain(newTotal, orderPaid)]]
               /\ UNCHANGED last
  /\ UNCHANGED <<db, started, calls>>

\* await invoice.save(); then the status is set on orderDoc
UpdateSaveInvoice(r) ==
  /\ reqs[r].pc = "u_saveInvoice"
  /\ LET q == reqs[r]
         next == [reqs EXCEPT ![r].pc = "u_saveOrder",
                              ![r].orderDoc.status =
                                 UpdateStatus(q.orderDoc.paid, q.orderDoc.totalAmount)]
     IN IF ~Modified(q.invoiceLoaded, q.invoice)
        THEN reqs' = next /\ UNCHANGED <<invoices, last>>
        ELSE IF q.id \in DOMAIN invoices
        THEN /\ invoices' = SaveInvoiceDoc(invoices, q.id, q.invoiceLoaded, q.invoice)
             /\ reqs' = next /\ UNCHANGED last
        ELSE Respond(r, 500, q.orderId, q.id) /\ UNCHANGED invoices
  /\ UNCHANGED <<customers, orders, counters, nextCustomerId, nextOrderId, nextInvoiceId,
                 started, calls>>

\* await orderDoc.save()
UpdateSaveOrder(r) ==
  /\ reqs[r].pc = "u_saveOrder"
  /\ LET q == reqs[r] IN
       IF ~Modified(q.orderLoaded, q.orderDoc)
       THEN Goto(r, "u_respond") /\ UNCHANGED <<orders, last>>
       ELSE IF q.orderId \in DOMAIN orders
       THEN /\ orders' = SaveOrderDoc(orders, q.orderId, q.orderLoaded, q.orderDoc)
            /\ Goto(r, "u_respond") /\ UNCHANGED last
       ELSE Respond(r, 500, q.orderId, q.id) /\ UNCHANGED orders
  /\ UNCHANGED <<customers, invoices, counters, nextCustomerId, nextOrderId, nextInvoiceId,
                 started, calls>>

\* await invoice.populate(...); res.json
UpdateRespond(r) ==
  /\ reqs[r].pc = "u_respond"
  /\ Respond(r, 200, reqs[r].orderId, reqs[r].id)
  /\ UNCHANGED <<db, started, calls>>

\* ---- DELETE /invoices/:id
StartDeleteInvoice(r, id) ==
  Arrive(r, [IdleReq EXCEPT !.op = "deleteInvoice", !.pc = "d_find", !.id = id])

\* const invoice = await Invoice.findById(id); orderId = invoice.order
DeleteFindInvoice(r) ==
  /\ reqs[r].pc = "d_find"
  /\ LET q == reqs[r] IN
       IF q.id \notin DOMAIN invoices
       THEN Respond(r, 404, NoId, q.id)
       ELSE /\ reqs' = [reqs EXCEPT ![r].pc = "d_delete",
                                    ![r].invoice = invoices[q.id],
                                    ![r].invoiceLoaded = invoices[q.id],
                                    ![r].orderId = invoices[q.id].order]
            /\ UNCHANGED last
  /\ UNCHANGED <<db, started, calls>>

\* await Invoice.findByIdAndDelete(id)
DeleteRemoveInvoice(r) ==
  /\ reqs[r].pc = "d_delete"
  /\ invoices' = MapRemove(invoices, reqs[r].id)
  /\ Goto(r, "d_list")
  /\ UNCHANGED <<customers, orders, counters, nextCustomerId, nextOrderId, nextInvoiceId,
                 last, started, calls>>

\* const remainingInvoices = await Invoice.find({ order: orderId }); totalPaid
DeleteListInvoices(r) ==
  /\ reqs[r].pc = "d_list"
  /\ reqs' = [reqs EXCEPT ![r].pc = "d_load",
                          ![r].totalPaid = TotalPaid(invoices, reqs[r].orderId)]
  /\ UNCHANGED <<db, last, started, calls>>

\* const orderDoc = await Order.findById(orderId); orderDoc.paid = totalPaid
DeleteLoadOrder(r) ==
  /\ reqs[r].pc = "d_load"
  /\ LET q == reqs[r] IN
       IF q.orderId \in DOMAIN orders
       THEN reqs' = [reqs EXCEPT ![r].pc = "d_updateMany",
                                 ![r].orderDoc = [orders[q.orderId] EXCEPT !.paid = q.totalPaid],
                                 ![r].orderLoaded = orders[q.orderId]]
       ELSE Goto(r, "d_respond")
  /\ UNCHANGED <<db, last, started, calls>>

\* await Invoice.updateMany(...); then the status is set on orderDoc
DeleteUpdateMany(r) ==
  /\ reqs[r].pc = "d_updateMany"
  /\ LET q == reqs[r] IN
       /\ invoices' = UpdateManyRemain(invoices, q.orderId,
                         DeleteRemain(q.orderDoc.totalAmount, q.totalPaid))
       /\ reqs' = [reqs EXCEPT ![r].pc = "d_saveOrder",
                               ![r].orderDoc.status =
                                  DeleteStatus(q.orderDoc.paid, q.orderDoc.totalAmount)]
  /\ UNCHANGED <<customers, orders, counters, nextCustomerId, nextOrderId, nextInvoiceId,
                 last, started, calls>>

\* await orderDoc.save()
DeleteSaveOrder(r) ==
  /\ reqs[r].pc = "d_saveOrder"
  /\ LET q == reqs[r] IN
       IF ~Modified(q.orderLoaded, q.orderDoc)
       THEN Goto(r, "d_respond") /\ UNCHANGED <<orders, last>>
       ELSE IF q.orderId \in DOMAIN orders
       THEN /\ orders' = SaveOrderDoc(orders, q.orderId, q.orderLoaded, q.orderDoc)
            /\ Goto(r, "d_respond") /\ UNCHANGED last
       ELSE Respond(r, 500, q.orderId, q.id) /\ UNCHANGED orders
  /\ UNCHANGED <<customers, invoices, counters, nextCustomerId, nextOrderId, nextInvoiceId,
                 started, calls>>

\* res.json
DeleteRespond(r) ==
  /\ reqs[r].pc = "d_respond"
  /\ Respond(r, 200, reqs[r].orderId, reqs[r].id)
  /\ UNCHANGED <<db, started, calls>>

\* ---- a store write rejects (connection lost, write error): the handler's catch
\* block answers 500 and nothing of the request is undone
WriteSteps ==
  {"c_saveInvoice", "c_saveOrder", "u_saveInvoice", "u_saveOrder",
   "d_delete", "d_updateMany", "d_saveOrder"}

WriteFails(r) ==
  /\ reqs[r].pc \in WriteSteps
  /\ Respond(r, 500, reqs[r].orderId, IF reqs[r].op = "createInvoice" THEN reqs[r].newId ELSE reqs[r].id)
  /\ UNCHANGED <<db, started, calls>>

\* the database holding one customer and one 100-total order without invoices
InitConc ==
  /\ customers = MapPut(EmptyMap, 1, [customer_code |-> 1])
  /\ orders = MapPut(EmptyMap, 1,
       [order_code |-> 1, totalAmount |-> 100, status |-> "received", paid |-> 0])
  /\ invoices = EmptyMap
  /\ counters = MapPut(MapPut(EmptyMap, "customer_code", 1), "order_code", 1)
  /\ nextCustomerId = 2
  /\ nextOrderId = 2
  /\ nextInvoiceId = 1
  /\ last = Response("none", 0, NoId, NoId)
  /\ reqs = [r \in ReqIds |-> IdleReq]
  /\ started = 0
  /\ calls = [c \in CallerIds |-> IdleCall]

NextConc ==
  \/ \E r \in ReqIds, o \in NamedOrderIds, t \in ConcTotals, p \in ConcPaids :
        StartCreateInvoice(r, o, t, p)
  \/ \E r \in ReqIds : CreateCheckOrder(r)
  \/ \E r \in ReqIds : CreateLoadOrder(r)
  \/ \E r \in ReqIds : CreateFindInvoices(r)
  \/ \E r \in ReqIds : CreateSaveInvoice(r)
  \/ \E r \in ReqIds : CreateSaveOrder(r)
  \/ \E r \in ReqIds : CreateRespond(r)
  \/ \E r \in ReqIds, i \in InvoiceIds, o \in Optional(NamedOrderIds),
        t \in Optional(ConcTotals), p \in Optional(ConcPaids) :
        StartUpdateInvoice(r, i, o, t, p)
  \/ \E r \in ReqIds : UpdateFindInvoice(r)
  \/ \E r \in ReqIds : UpdateCheckOrder(r)
  \/ \E r \in ReqIds : UpdateLoadOrder(r)
  \/ \E r \in ReqIds : UpdateSaveInvoice(r)
  \/ \E r \in ReqIds : UpdateSaveOrder(r)
  \/ \E r \in ReqIds : UpdateRespond(r)
  \/ \E r \in ReqIds, i \in InvoiceIds : StartDeleteInvoice(r, i)
  \/ \E r \in ReqIds : DeleteFindInvoice(r)
  \/ \E r \in ReqIds : DeleteRemoveInvoice(r)
  \/ \E r \in ReqIds : DeleteListInvoices(r)
  \/ \E r \in ReqIds : DeleteLoadOrder(r)
  \/ \E r \in ReqIds : DeleteUpdateMany(r)
  \/ \E r \in ReqIds : DeleteSaveOrder(r)
  \/ \E r \in ReqIds : DeleteRespond(r)
  \/ \E r \in ReqIds : WriteFails(r)

SpecConc == InitConc /\ [][NextConc]_vars

\* ---------------------------------------------------------------- invoice requests as received
\* the invoice routes served one request at a time on the one-order database, the
\* amounts of the body being absent, non-numeric, negative or valid
NextBody ==
  \/ \E o \in NamedOrderIds, t \in BodyTotals, p \in BodyPaids :
        PostInvoice(o, t, p) /\ UNCHANGED inflight
  \/ \E i \in InvoiceIds, o \in Optional(NamedOrderIds), t \in BodyTotals, p \in BodyPaids :
        PutInvoice(i, o, t, p) /\ UNCHANGED inflight
  \/ \E i \in InvoiceIds : DeleteInvoice(i) /\ UNCHANGED inflight

SpecBody == InitConc /\ [][NextBody]_vars

\* ---------------------------------------------------------------- two orders
\* the database holding one customer and two 100-total orders without invoices
InitTwo ==
  /\ customers = MapPut(EmptyMap, 1, [customer_code |-> 1])
  /\ orders = MapPut(MapPut(EmptyMap, 1,
         [order_code |-> 1, totalAmount |-> 100, status |-> "received", paid |-> 0]), 2,
         [order_code |-> 2, totalAmount |-> 100, status |-> "received", paid |-> 0])
  /\ invoices = EmptyMap
  /\ counters = MapPut(MapPut(EmptyMap, "customer_code", 1), "order_code", 2)
  /\ nextCustomerId = 2
  /\ nextOrderId = 3
  /\ nextInvoiceId = 1
  /\ last = Response("none", 0, NoId, NoId)
  /\ reqs = [r \in ReqIds |-> IdleReq]
  /\ started = 0
  /\ calls = [c \in CallerIds |-> IdleCall]

\* the invoice routes served one request at a time, the requests naming either order
NextTwo ==
  \/ \E o \in {1, 2}, t \in ConcTotals, p \in ConcPaids :
        CreateInvoice(o, t, p) /\ UNCHANGED inflight
  \/ \E i \in InvoiceIds, o \in Optional({1, 2}), t \in Optional(ConcTotals),
        p \in Optional(ConcPaids) : UpdateInvoice(i, o, t, p) /\ UNCHANGED inflight
  \/ \E i \in InvoiceIds : DeleteInvoice(i) /\ UNCHANGED inflight

SpecTwo == InitTwo /\ [][NextTwo]_vars

\* ---------------------------------------------------------------- concurrent creations
\* A document creation (order.save() / customer.save() of a new document) runs the
\* pre-save hook: it issues Counter.findOneAndUpdate, the store executes the
\* increment-and-read as one operation, the hook receives the counter document and
\* assigns its value as the code, and the document is then inserted.
SequenceNames == {"order_code", "customer_code"}

Returned(c) == calls[c].pc \in {"returned", "saved", "failed"}

SetMax(S) == IF S = {} THEN 0 ELSE CHOOSE m \in S : \A x \in S : x <= m

\* the greatest value a call for `name` has returned so far
MaxReturned(name) ==
  SetMax({calls[d].value : d \in {e \in CallerIds : Returned(e) /\ calls[e].name = name}})

\* the hook issues findOneAndUpdate
CallNext(c, name) ==
  /\ calls[c].pc = "idle"
  /\ calls' = [calls EXCEPT ![c] =
       [pc |-> "called", name |-> name, value |-> 0, floor |-> MaxReturned(name)]]
  /\ UNCHANGED <<db, last, reqs, started>>

\* the store executes { $inc: { value: 1 } } with upsert and reads the new document
ExecNext(c) ==
  /\ calls[c].pc = "called"
  /\ counters' = CounterInc(counters, calls[c].name)
  /\ calls' = [calls EXCEPT ![c].pc = "executed",
                            ![c].value = CounterNewValue(counters, calls[c].name)]
  /\ UNCHANGED <<customers, orders, invoices, nextCustomerId, nextOrderId, nextInvoiceId,
                 last, reqs, started>>

\* the hook receives the document: this.order_code = counter.value
ReturnNext(c) ==
  /\ calls[c].pc = "executed"
  /\ calls' = [calls EXCEPT ![c].pc = "returned"]
  /\ UNCHANGED <<db, last, reqs, started>>

\* the new document is inserted with its code
InsertDocument(c) ==
  /\ calls[c].pc = "returned"
  /\ calls' = [calls EXCEPT ![c].pc = "saved"]
  /\ IF calls[c].name = "order_code"
     THEN /\ orders' = MapPut(orders, nextOrderId,
                [order_code |-> calls[c].value, totalAmount |-> 100,
                 status |-> "received", paid |-> 0])
          /\ nextOrderId' = nextOrderId + 1
          /\ last' = Response("createOrder", 201, nextOrderId, NoId)
          /\ UNCHANGED <<customers, nextCustomerId>>
     ELSE /\ customers' = MapPut(customers, nextCustomerId, [customer_code |-> calls[c].value])
          /\ nextCustomerId' = nextCustomerId + 1
          /\ last' = Response("createCustomer", 201, NoId, NoId)
          /\ UNCHANGED <<orders, nextOrderId>>
  /\ UNCHANGED <<invoices, counters, nextInvoiceId, reqs, started>>

\* the insert fails after the code was allocated: the code is lost (a gap)
InsertFails(c) ==
  /\ calls[c].pc = "returned"
  /\ calls' = [calls EXCEPT ![c].pc = "failed"]
  /\ last' = Response(IF calls[c].name = "order_code" THEN "createOrder" ELSE "createCustomer",
                      500, NoId, NoId)
  /\ UNCHANGED <<db, reqs, started>>

NextCounter ==
  \/ \E c \in CallerIds, n \in SequenceNames : CallNext(c, n)
  \/ \E c \in CallerIds : ExecNext(c)
  \/ \E c \in CallerIds : ReturnNext(c)
  \/ \E c \in CallerIds : InsertDocument(c)
  \/ \E c \in CallerIds : InsertFails(c)

SpecCounter == Init /\ [][NextCounter]_vars

\* ---------------------------------------------------------------- order codes
\* order creations allocating their codes, interleaved with the requests that save or
\* remove a stored order afterwards: order updates and deletions, invoice operations
NextCodes ==
  \/ \E c \in CallerIds : CallNext(c, "order_code")
  \/ \E c \in CallerIds : ExecNext(c)
  \/ \E c \in CallerIds : ReturnNext(c)
  \/ \E c \in CallerIds : InsertDocument(c)
  \/ \E c \in CallerIds : InsertFails(c)
  \/ \E o \in OrderIds, t \in Optional(OrderTotals) :
        UpdateOrder(o, t, Undefined, Undefined) /\ UNCHANGED inflight
  \/ \E o \in OrderIds : DeleteOrder(o) /\ UNCHANGED inflight
  \/ \E o \in OrderIds, t \in ConcTotals, p \in OrderPaidInputs :
        CreateInvoice(o, t, p) /\ UNCHANGED inflight
  \/ \E i \in InvoiceIds, p \in OrderPaidInputs :
        UpdateInvoice(i, Undefined, Undefined, Some(p)) /\ UNCHANGED inflight
  \/ \E i \in InvoiceIds : DeleteInvoice(i) /\ UNCHANGED inflight

SpecCodes == Init /\ [][NextCodes]_vars

\* ---------------------------------------------------------------- properties
InvoiceOps == {"createInvoice", "updateInvoice", "deleteInvoice"}

Succeeded(r) == r.code \in {200, 201}

\* an invoice operation has just completed on an order that exists
AfterInvoiceOp == last.op \in InvoiceOps /\ Succeeded(last) /\ last.order \in DOMAIN orders

\* the three-tier status rule of the specification
StatusRule(paid, totalAmount) ==
  IF paid >= totalAmount THEN "delivered" ELSE IF paid > 0 THEN "completed" ELSE "received"

Max0(n) == IF n > 0 THEN n ELSE 0

\* C1: after every completed invoice operation, the affected order's paid equals the
\* sum of paid over the invoices that reference it.
C1_OrderPaidIsInvoiceSum ==
  AfterInvoiceOp => orders[last.order].paid = TotalPaid(invoices, last.order)

\* C2: after every completed invoice operation, the affected order is delivered iff
\* paid >= totalAmount, received iff paid = 0, and completed otherwise.
C2_StatusMatchesPaid ==
  AfterInvoiceOp =>
    LET o == orders[last.order] IN
      /\ (o.status = "delivered") <=> (o.paid >= o.totalAmount)
      /\ (o.status = "received") <=> (o.paid = 0)
      /\ (o.status = "completed") <=> (~(o.paid >= o.totalAmount) /\ o.paid # 0)

\* C3: two concurrent CreateInvoice calls with paid = 30 each on the 100-total order
\* without invoices leave order.paid = 60 once both have completed.
C3_NoLostUpdate ==
  (/\ started = 2
   /\ \A r \in {1, 2} :
        /\ reqs[r].pc = "done" /\ reqs[r].op = "createInvoice" /\ reqs[r].code = 201
        /\ reqs[r].order = Some(1) /\ reqs[r].paid = Some(30))
  => orders[1].paid = 60

\* C4: an invoice operation that ran alone and ended in a failure leaves the orders and
\* the invoices as they were when it started.
C4_FailureLeavesPreState ==
  [][\A r \in ReqIds :
       (Active(reqs[r]) /\ reqs[r].alone /\ reqs'[r].pc = "done" /\ reqs'[r].code = 500)
       => (orders' = reqs[r].preOrders /\ invoices' = reqs[r].preInvoices)]_vars

\* C5: per sequence name, no two allocations return the same value, and a call that
\* starts after another call has returned receives a strictly greater value.
C5_SequenceUniqueIncreasing ==
  LET allocated == {c \in CallerIds : calls[c].pc \in {"executed", "returned", "saved", "failed"}}
  IN /\ \A c, d \in allocated :
          (c # d /\ calls[c].name = calls[d].name) => calls[c].value # calls[d].value
     /\ \A c \in allocated : calls[c].value > calls[c].floor

\* C5 witness: two creations overlapped (neither started after the other returned) and a
\* third started after one of them returned; all three got codes of the same sequence.
C5_Witness ==
  \E c, d, e \in CallerIds :
    /\ Cardinality({c, d, e}) = 3
    /\ \A x \in {c, d, e} : Returned(x) /\ calls[x].name = "order_code"
    /\ calls[c].floor = 0 /\ calls[d].floor = 0
    /\ calls[e].floor >= 1

C8_SoleInvoiceUpdate ==
  [][(last'.op = "updateInvoice" /\ last'.code = 200) =>
       LET o == last'.order
           i == last'.inv
       IN (/\ InvoicesOf(invoices, o) = {i}
           /\ orders[o].paid = invoices[i].paid
           /\ invoices'[i].order = o
           /\ invoices'[i].total = invoices[i].total
           /\ invoices'[i].paid # invoices[i].paid)
          => /\ orders'[o].paid = invoices'[i].paid
             /\ invoices'[i].remain = invoices'[i].total - invoices'[i].paid
             /\ orders'[o].status = StatusRule(orders'[o].paid, orders'[o].totalAmount)]_vars

\* C9: a CreateInvoice whose total equals the order's outstanding balance and whose paid
\* equals its total leaves the order fully paid and delivered and stores remain 0 on the
\* new invoice (scenario B: 100-total order, invoice (100, 60), then invoice (40, 40)).
C9_FinalInvoiceRemainZero ==
  [][(last'.op = "createInvoice" /\ last'.code = 201) =>
       LET o == last'.order
           i == last'.inv
           balance == orders[o].totalAmount - TotalPaid(invoices, o)
       IN (/\ orders[o].paid = TotalPaid(invoices, o)
           /\ invoices'[i].total = balance
           /\ invoices'[i].paid = invoices'[i].total)
          => /\ orders'[o].paid = orders'[o].totalAmount
             /\ orders'[o].status = "delivered"
             /\ invoices'[i].remain = 0]_vars

\* C10: no stored invoice has a negative remain.
C10_RemainNonNegative ==
  \A i \in DOMAIN invoices : invoices[i].remain >= 0

\* C11: after every completed CreateInvoice, UpdateInvoice or DeleteInvoice, the remain
\* stored on each invoice the operation wrote (the created or updated invoice; for a
\* delete, the order's remaining invoices) equals order.totalAmount minus the sum of
\* paid over all invoices of that order.
C11_RemainIsOrderBalance ==
  AfterInvoiceOp =>
    LET balance == orders[last.order].totalAmount - TotalPaid(invoices, last.order)
        written == IF last.op = "deleteInvoice"
                   THEN InvoicesOf(invoices, last.order)
                   ELSE {last.inv} \cap DOMAIN invoices
    IN \A i \in written : invoices[i].remain = balance

\* C12: a DeleteInvoice whose id matches no stored invoice (never issued, or already
\* deleted) answers 404 NotFound and changes no order and no invoice.
C12_DeleteMissingInvoice ==
  [][(last'.op = "deleteInvoice" /\ last'.inv \notin DOMAIN invoices)
       => (last'.code = 404 /\ orders' = orders /\ invoices' = invoices)]_vars

\* C12 witness: the second delete of an invoice that was issued and deleted has answered
\* 404 while the order still has another invoice.
C12_Witness ==
  /\ last.op = "deleteInvoice" /\ last.code = 404
  /\ last.inv < nextInvoiceId /\ last.inv \notin DOMAIN invoices
  /\ \E o \in DOMAIN orders : InvoicesOf(invoices, o) # {}

\* the request q names something that was missing when it arrived
C13_NamesMissing(q) ==
  \/ /\ q.op = "createInvoice"
     /\ q.order[1] \notin DOMAIN q.preOrders
  \/ /\ q.op = "updateInvoice"
     /\ q.id \notin DOMAIN q.preInvoices
  \/ /\ q.op = "updateInvoice"
     /\ q.id \in DOMAIN q.preInvoices
     /\ q.order # Undefined
     /\ q.order[1] # q.preInvoices[q.id].order
     /\ q.order[1] \notin DOMAIN q.preOrders

\* C13: an invoice request that runs alone and names something missing when it arrives
\* (a CreateInvoice naming an order that does not exist, an UpdateInvoice naming an
\* invoice that does not exist, an UpdateInvoice reassigning an existing invoice to an
\* order that does not exist) answers 404 NotFound and leaves every order and every
\* invoice as it was.
C13_NotFoundNoWrite ==
  [][\A r \in ReqIds :
       (Active(reqs[r]) /\ reqs[r].alone /\ reqs'[r].pc = "done" /\ C13_NamesMissing(reqs[r]))
       => (reqs'[r].code = 404 /\ orders' = reqs[r].preOrders
           /\ invoices' = reqs[r].preInvoices)]_vars

\* C13 witness: a lone UpdateInvoice asking to move a stored invoice of order 1 to an
\* order that does not exist has answered 404.
C13_Witness ==
  \E r \in ReqIds :
    /\ reqs[r].pc = "done" /\ reqs[r].op = "updateInvoice" /\ reqs[r].code = 404
    /\ reqs[r].id \in DOMAIN invoices
    /\ reqs[r].order # Undefined
    /\ reqs[r].order[1] \notin DOMAIN orders
    /\ invoices[reqs[r].id].order \in DOMAIN orders
    /\ \A x \in ReqIds \ {r} : ~Active(reqs[x])

\* C14: a CreateInvoice whose total or paid is missing or not a number, and an
\* UpdateInvoice that supplies a total or paid that is not a number, is rejected before
\* anything is persisted: no invoice is created or modified and no order changes.
C14_InvalidAmountRejected ==
  [][\A t \in BodyTotals, p \in BodyPaids :
       /\ (~IsNumber(t) \/ ~IsNumber(p)) =>
            \A o \in NamedOrderIds :
              PostInvoice(o, t, p) => (invoices' = invoices /\ orders' = orders)
       /\ (t = Text \/ p = Text) =>
            \A i \in InvoiceIds, o \in Optional(NamedOrderIds) :
              PutInvoice(i, o, t, p) => (invoices' = invoices /\ orders' = orders)]_vars

\* C15: no stored invoice ever has a negative paid, and a CreateInvoice or UpdateInvoice
\* that supplies a negative paid changes no invoice and no order.
C15_NegativePaidRejected ==
  [][/\ \A i \in DOMAIN invoices' : invoices'[i].paid >= 0
     /\ \A p \in {b \in BodyPaids : IsNumber(b) /\ b.num < 0}, t \in BodyTotals :
          /\ \A o \in NamedOrderIds :
               PostInvoice(o, t, p) => (invoices' = invoices /\ orders' = orders)
          /\ \A i \in InvoiceIds, o \in Optional(NamedOrderIds) :
               PutInvoice(i, o, t, p) => (invoices' = invoices /\ orders' = orders)]_vars

\* C16: no order ever has a negative paid (every total and paid a request supplies in
\* this specification is non-negative).
C16_OrderPaidNonNegative ==
  \A o \in DOMAIN orders : orders[o].paid >= 0

\* C17: order.paid is changed by the invoice operations only: a created order has
\* paid = 0, an order update leaves order.paid as it was, and whenever the paid of a
\* stored order changes the request that did it is an invoice operation.
C17_OrderPaidOnlyByInvoiceOps ==
  [][/\ (last'.op = "createOrder" /\ last'.code = 201) => orders'[last'.order].paid = 0
     /\ \A o \in DOMAIN orders \cap DOMAIN orders' :
          /\ last'.op = "updateOrder" => orders'[o].paid = orders[o].paid
          /\ orders'[o].paid # orders[o].paid => last'.op \in InvoiceOps]_vars

\* the creations that have been given a code
C18_Allocated == {c \in CallerIds : calls[c].pc \in {"executed", "returned", "saved", "failed"}}

\* C18: the order_code of a stored order never changes; only the creation of a document
\* consumes a counter value (an order update or an invoice operation leaves the counters
\* alone); and the code a newly stored order carries is the one its creation allocated,
\* different from every code any other creation allocated, whether that creation's
\* order is still stored, was deleted, or was never stored because its save failed.
C18_OrderCodeAssignedOnce ==
  [][/\ \A o \in DOMAIN orders \cap DOMAIN orders' :
          orders'[o].order_code = orders[o].order_code
     /\ counters' # counters =>
          \E c \in CallerIds : calls[c].pc = "called" /\ calls'[c].pc = "executed"
     /\ \A o \in DOMAIN orders' \ DOMAIN orders :
          \E c \in CallerIds :
            /\ calls[c].pc = "returned" /\ calls'[c].pc = "saved"
            /\ orders'[o].order_code = calls[c].value
            /\ \A d \in C18_Allocated \ {c} : calls[d].value # calls[c].value]_vars

\* C18 witness: an order has just been stored after the first order, which had an
\* invoice, was deleted and after another creation lost its code to a failed save; its
\* code is greater than the lost one.
C18_Witness ==
  /\ last.op = "createOrder" /\ last.code = 201
  /\ last.order \in DOMAIN orders /\ last.order > 1
  /\ 1 \notin DOMAIN orders
  /\ \E i \in DOMAIN invoices : invoices[i].order = 1
  /\ \E c \in CallerIds :
       calls[c].pc = "failed" /\ calls[c].value < orders[last.order].order_code

\* the calls for `name` that the store has executed
C19_Executed(name) ==
  {c \in CallerIds : calls[c].pc \in {"executed", "returned", "saved", "failed"}
                     /\ calls[c].name = name}

\* C19: for every sequence name, the n allocations executed so far, in whatever order
\* the calls were issued and executed, returned exactly the integers 1..n, each once
\* (the first one 1), and the stored counter value is n; a name never used has no
\* counter document.
C19_CallsReturnOneToN ==
  \A name \in SequenceNames :
    LET n == Cardinality(C19_Executed(name)) IN
      /\ {calls[c].value : c \in C19_Executed(name)} = 1..n
      /\ IF n = 0 THEN name \notin DOMAIN counters
         ELSE name \in DOMAIN counters /\ counters[name] = n

\* C19 witness: three order creations were all issued before any of them had returned,
\* and the three have returned 1, 2 and 3; the stored value is 3.
C19_Witness ==
  /\ Cardinality(C19_Executed("order_code")) = 3
  /\ \A c \in C19_Executed("order_code") : Returned(c) /\ calls[c].floor = 0
  /\ {calls[c].value : c \in C19_Executed("order_code")} = {1, 2, 3}
  /\ counters["order_code"] = 3

\* C20: an order update that supplies a status stores exactly that status, whatever the
\* order's paid and totalAmount are or become; an order update that supplies none leaves
\* the status as it was; and the status of a stored order changes only in an invoice
\* operation or in an order update.
C20_StatusOnlyByRuleOrOverride ==
  [][/\ \A o \in DOMAIN orders \cap DOMAIN orders' :
          orders'[o].status # orders[o].status
            => last'.op \in InvoiceOps \cup {"updateOrder"}
     /\ (last'.op = "updateOrder" /\ last'.code = 200) =>
          \A t \in Optional(OrderTotals), s \in Optional(Statuses),
             p \in Optional(OrderPaidInputs) :
            UpdateOrder(last'.order, t, s, p) =>
              orders'[last'.order].status =
                 IF s # Undefined THEN s[1] ELSE orders[last'.order].status]_vars

\* C20 witness: an order update has just set the status of an order that is paid in full
\* back to received.
C20_Witness ==
  /\ last.op = "updateOrder" /\ last.code = 200
  /\ last.order \in DOMAIN orders
  /\ orders[last.order].paid >= orders[last.order].totalAmount
  /\ orders[last.order].paid > 0
  /\ InvoicesOf(invoices, last.order) # {}
  /\ orders[last.order].status = "received"

C22_Rank(status) ==
  IF status = "received" THEN 0 ELSE IF status = "completed" THEN 1 ELSE 2

C23_Paired(a, b) ==
  \/ {a.op, b.op} = {"createInvoice", "deleteInvoice"}
  \/ (a.op = "deleteInvoice" /\ b.op = "deleteInvoice")
  \/ (a.op = "updateInvoice" /\ b.op = "updateInvoice" /\ a.id # b.id)

\* C23: when two invoice mutations of one of the paired kinds (CreateInvoice with
\* DeleteInvoice, two DeleteInvoice, UpdateInvoice of two different invoices) are the
\* only requests served and both have completed successfully, in whatever way their
\* steps interleaved, the order's paid is the sum of paid over the invoices that
\* reference it and its status follows the three-tier rule.
C23_ConcurrentMutationsReconcile ==
  (/\ started = 2
   /\ \A r \in {1, 2} : reqs[r].pc = "done" /\ Succeeded(reqs[r])
   /\ C23_Paired(reqs[1], reqs[2]))
  => \A o \in DOMAIN orders :
       /\ orders[o].paid = TotalPaid(invoices, o)
       /\ orders[o].status = StatusRule(orders[o].paid, orders[o].totalAmount)

\* the step of a handler that comes right before each of its later steps
C24_Before(pc) ==
  CASE pc = "c_saveOrder" -> {"c_saveInvoice"}
    [] pc = "c_respond" -> {"c_saveOrder"}
    [] pc = "u_saveOrder" -> {"u_saveInvoice"}
    [] pc = "u_respond" -> {"u_saveOrder"}
    [] pc = "d_list" -> {"d_delete"}
    [] pc = "d_load" -> {"d_list"}
    [] pc = "d_updateMany" -> {"d_load"}
    [] pc = "d_saveOrder" -> {"d_updateMany"}
    [] pc = "d_respond" -> {"d_saveOrder", "d_load"}
    [] OTHER -> {}

\* C24: in every invoice handler the invoice is written before the order (create and
\* update: invoice.save() then orderDoc.save(); delete: the invoice is deleted, then the
\* siblings' remain is rewritten, then the order is saved; the order write is skipped
\* only by a delete whose order is gone), the invoices and the orders are written in no
\* other step, and the success response is the handler's last step, after the order
\* write.
C24_WritesInOrderBeforeResponse ==
  [][/\ invoices' # invoices =>
          \E r \in ReqIds : /\ reqs'[r] # reqs[r]
                            /\ reqs[r].pc \in {"c_saveInvoice", "u_saveInvoice",
                                               "d_delete", "d_updateMany"}
     /\ orders' # orders =>
          \E r \in ReqIds : /\ reqs'[r] # reqs[r]
                            /\ reqs[r].pc \in {"c_saveOrder", "u_saveOrder", "d_saveOrder"}
     /\ \A r \in ReqIds :
          /\ (Active(reqs[r]) /\ reqs'[r].pc # reqs[r].pc /\ C24_Before(reqs'[r].pc) # {})
               => reqs[r].pc \in C24_Before(reqs'[r].pc)
          /\ (Active(reqs[r]) /\ reqs'[r].pc = "done" /\ Succeeded(reqs'[r]))
               => reqs[r].pc \in {"c_respond", "u_respond", "d_respond"}]_vars

\* C24 witness: a DeleteInvoice has answered 200 and the remaining invoice (paid 60,
\* created with remain 10) carries the rewritten remain 40 and the order the paid 60.
C24_Witness ==
  \E r \in ReqIds, i \in DOMAIN invoices :
    /\ reqs[r].pc = "done" /\ reqs[r].op = "deleteInvoice" /\ reqs[r].code = 200
    /\ reqs[r].id \notin DOMAIN invoices
    /\ DOMAIN invoices = {i}
    /\ invoices[i].paid = 60 /\ invoices[i].remain = 40
    /\ 1 \in DOMAIN orders /\ orders[1].paid = 60
    /\ last.op = "deleteInvoice" /\ last.code = 200

\* C25: a successful UpdateInvoice that leaves the invoice's paid as it was (it changes
\* other fields, or only the total) leaves the paid and the status of the invoice's
\* order as they were.
C25_NonPaidUpdateKeepsOrder ==
  [][(last'.op = "updateInvoice" /\ last'.code = 200) =>
       LET o == last'.order
           i == last'.inv
       IN invoices'[i].paid = invoices[i].paid
            => (orders'[o].paid = orders[o].paid /\ orders'[o].status = orders[o].status)]_vars

\* C26: after a successful UpdateInvoice that moves an invoice from its order A to a
\* different existing order B, the invoice references B, and each of A and B has paid
\* equal to the sum of paid over its own invoices, B's status following the three-tier
\* rule for it.
C26_ReassignMovesPayment ==
  [][(last'.op = "updateInvoice" /\ last'.code = 200) =>
       LET i == last'.inv
           A == invoices[i].order
           B == invoices'[i].order
       IN (B # A /\ B \in DOMAIN orders) =>
            /\ orders'[B].paid = TotalPaid(invoices', B)
            /\ orders'[B].status = StatusRule(orders'[B].paid, orders'[B].totalAmount)
            /\ orders'[A].paid = TotalPaid(invoices', A)]_vars

\* C27: every stored invoice references an order that is stored.
C27_InvoiceOrderExists ==
  \A i \in DOMAIN invoices : invoices[i].order \in DOMAIN orders

\* C28: a DeleteInvoice fails only when the invoice is not stored; when the invoice is
\* stored and its order is not, the invoice is deleted, the request answers success and
\* no order and no other invoice changes; an UpdateInvoice of a stored invoice whose
\* order is not stored fails and leaves the invoices and the orders as they were.
C28_MissingOrderDeleteAndUpdate ==
  [][LET i == last'.inv IN
       /\ (last'.op = "deleteInvoice" /\ i \in DOMAIN invoices) =>
            /\ last'.code = 200
            /\ i \notin DOMAIN invoices'
            /\ invoices[i].order \notin DOMAIN orders =>
                 (orders' = orders /\ invoices' = MapRemove(invoices, i))
       /\ (last'.op = "updateInvoice" /\ i \in DOMAIN invoices
           /\ invoices[i].order \notin DOMAIN orders) =>
            /\ ~Succeeded(last')
            /\ invoices' = invoices /\ orders' = orders]_vars

\* C28 witness: an invoice whose order was deleted has just been deleted with success,
\* and the other invoice of that order is still stored.
C28_Witness ==
  /\ last.op = "deleteInvoice" /\ last.code = 200
  /\ last.inv \notin DOMAIN invoices
  /\ last.order \notin DOMAIN orders
  /\ \E j \in DOMAIN invoices : invoices[j].order = last.order

\* C29: an invoice operation on invoice i of order o (the order the invoice referenced
\* when the operation started, or the order a create names) changes no order other than
\* o; a create or an update changes no invoice other than i; a delete removes i, may
\* rewrite the remain of the other invoices of o and nothing else of them, and changes
\* no invoice of another order.
C29_IsolationBetweenOrders ==
  [][last'.op \in InvoiceOps =>
       LET o == last'.order
           i == last'.inv
       IN /\ DOMAIN orders' = DOMAIN orders
          /\ \A x \in DOMAIN orders \ {o} : orders'[x] = orders[x]
          /\ DOMAIN invoices' \ {i} = DOMAIN invoices \ {i}
          /\ \A j \in DOMAIN invoices \ {i} :
               IF last'.op = "deleteInvoice" /\ invoices[j].order = o
               THEN invoices'[j] = [invoices[j] EXCEPT !.remain = invoices'[j].remain]
               ELSE invoices'[j] = invoices[j]]_vars

\* C29 witness: an invoice of order 1 has just been deleted, leaving order 1 without
\* payment, while order 2 and its invoice keep the paid and the remain of that invoice's
\* creation.
C29_Witness ==
  /\ last.op = "deleteInvoice" /\ last.code = 200 /\ last.order = 1
  /\ orders[1].paid = 0
  /\ \E j \in DOMAIN invoices :
       /\ invoices[j].order = 2
       /\ invoices[j].paid > 0
       /\ invoices[j].remain = invoices[j].total - invoices[j].paid
       /\ orders[2].paid = invoices[j].paid

\* C30: when a successful UpdateInvoice of an invoice is followed directly by a
\* successful UpdateInvoice of the same invoice whose request leaves the invoice's order,
\* total and paid at the values the first one stored (the same request applied again),
\* the second one changes no invoice and no order.
C30_UpdateInvoiceIdempotent ==
  [][(/\ last.op = "updateInvoice" /\ last.code = 200
      /\ last'.op = "updateInvoice" /\ last'.code = 200
      /\ last'.inv = last.inv
      /\ last.inv \in DOMAIN invoices
      /\ invoices'[last.inv].order = invoices[last.inv].order
      /\ invoices'[last.inv].total = invoices[last.inv].total
      /\ invoices'[last.inv].paid = invoices[last.inv].paid)
     => (invoices' = invoices /\ orders' = orders)]_vars

====
